---- MODULE Spec2Model ----
(***************************************************************************)
(* Token resolution, validation and VO extraction of                       *)
(* fedcloudclient/checkin.py as a state machine.  Every public function of *)
(* the module is one action: the action draws the arguments from small    *)
(* sets, runs the whole function and records what it returned or raised,   *)
(* the external calls it made and what it printed.  A function that talks  *)
(* to the outside world (mytoken server, oidc-agent, Check-in endpoints)   *)
(* takes the answer of each service as a parameter; the action draws an    *)
(* answer for exactly the services the function gets to call.              *)
(*                                                                         *)
(* Python values are records [none, s]: None is [none |-> TRUE], a string  *)
(* or list is [none |-> FALSE, s |-> <sequence>].  A JWT string is the     *)
(* sequence of its dot-separated segments.  Times are kept in half seconds *)
(* so that the truncation done by int() is visible.                        *)
(***************************************************************************)
EXTENDS Integers, Sequences, FiniteSets, TLC

VARIABLES
    clock2,   \* time.time() in half seconds
    op,       \* name of the last function called ("init" before any call)
    args,     \* its arguments
    result    \* its outcome: [kind, val, exc, msg, calls, err, out]; calls
              \* is the log of external calls, each with the answer it got

vars == <<clock2, op, args, result>>

-----------------------------------------------------------------------------
(* Bounds of the model *)

\* the clock runs over 0 .. MaxClock2 half seconds
MaxClock2 == 3

\* longest eduperson_entitlement list drawn
MaxList == 2

-----------------------------------------------------------------------------
(* Python values *)

PyNone == [none |-> TRUE, s |-> <<>>]

Py(x) == [none |-> FALSE, s |-> x]

\* truth value of an optional string: None and "" are false
Truthy(v) == ~v.none /\ v.s # <<>>

\* int(x) of a non-negative or negative number kept in half units:
\* truncation toward zero
PyInt(x2) == IF x2 >= 0 THEN x2 \div 2 ELSE -((-x2) \div 2)

Range(f) == {f[i] : i \in DOMAIN f}

-----------------------------------------------------------------------------
(* Outcomes of a call *)

Return(v, calls, err, out) ==
    [kind |-> "return", val |-> v, exc |-> "", msg |-> <<>>,
     calls |-> calls, err |-> err, out |-> out]

Raise(e, calls, err, out) ==
    [kind |-> "raise", val |-> PyNone, exc |-> e, msg |-> <<>>,
     calls |-> calls, err |-> err, out |-> out]

\* the function stands at a call to service ep whose answer is not drawn yet
Pending(ep) ==
    [kind |-> "pending", val |-> PyNone, exc |-> ep, msg |-> <<>>,
     calls |-> <<>>, err |-> <<>>, out |-> <<>>]

Exit(m, calls, err, out) ==
    [kind |-> "exit", val |-> PyNone, exc |-> "SystemExit", msg |-> m,
     calls |-> calls, err |-> err, out |-> out]

\* exit status the interpreter gives a SystemExit whose code is a message:
\* the message goes to stderr and the status is 1
ExitStatus(r) == IF r.kind = "exit" /\ r.msg # <<>> THEN 1 ELSE 0

-----------------------------------------------------------------------------
(* Constants of the program *)

MIN_ACCESS_TOKEN_TIME == 30

-----------------------------------------------------------------------------
(* Tokens *)

Hdr == [enc |-> TRUE, claims |-> [alg |-> "RS256"]]

Sig == [enc |-> TRUE, claims |-> [alg |-> "sig"]]

Claims(exp2) == [exp |-> exp2, sub |-> "user1", iss |-> "https://aai.egi.eu"]

Jwt(c) == <<Hdr, [enc |-> TRUE, claims |-> c], Sig>>

\* expiry times (half seconds) around the 30 s threshold for every clock
\* value, one long expired and one days ahead
ExpValues == {0, 400000} \cup (2 * MIN_ACCESS_TOKEN_TIME - 3 .. 2 * MIN_ACCESS_TOKEN_TIME + MaxClock2 + 3)

NoExpToken == Jwt([sub |-> "user1", iss |-> "https://aai.egi.eu"])

NoIssToken == Jwt([exp |-> 400000, sub |-> "user1"])

NoSubToken == Jwt([exp |-> 400000, iss |-> "https://aai.egi.eu"])

\* strings jwt.decode rejects: two segments, four segments, a payload that
\* is no valid base64/JSON
MalformedTokens ==
    { <<Hdr, [enc |-> TRUE, claims |-> Claims(400000)]>>,
      <<Hdr, [enc |-> TRUE, claims |-> Claims(400000)], Sig, Sig>>,
      <<Hdr, [enc |-> FALSE, claims |-> Claims(400000)], Sig>> }

WellFormedTokens == {Jwt(Claims(e)) : e \in ExpValues} \cup {NoExpToken, NoIssToken, NoSubToken}

\* non-empty token strings
TokenStrings == WellFormedTokens \cup MalformedTokens

\* values of an optional token parameter
TokenArgs == {PyNone, Py(<<>>)} \cup {Py(t) : t \in TokenStrings}

\* values of the other optional string parameters
StrArgs(name) == {PyNone, Py(<<>>), Py(<<name>>)}

-----------------------------------------------------------------------------
(* print_error, decode_token *)

print_error(message, quiet) == IF ~quiet THEN <<message>> ELSE <<>>

\* jwt.decode(token, options={"verify_signature": False}): the payload of a
\* three-segment, well-encoded string; InvalidTokenError otherwise (None and
\* "" included)
jwt_decode(tok) ==
    IF ~tok.none /\ Len(tok.s) = 3 /\ \A i \in 1..3 : tok.s[i].enc
    THEN [ok |-> TRUE, payload |-> tok.s[2].claims]
    ELSE [ok |-> FALSE, payload |-> [alg |-> "none"]]

decode_token(oidc_access_token) ==
    LET d == jwt_decode(oidc_access_token) IN
    IF ~d.ok
    THEN Return(PyNone, <<>>, print_error("Error: Invalid access token.", FALSE), <<>>)
    ELSE Return(Py(d.payload), <<>>, <<>>, <<>>)

-----------------------------------------------------------------------------
(* check_token, get_checkin_id *)

\* variant: the threshold itself counts as expired
IsExpired_le(exp_time_in_sec) == exp_time_in_sec <= MIN_ACCESS_TOKEN_TIME

IsExpired(exp_time_in_sec) == exp_time_in_sec < MIN_ACCESS_TOKEN_TIME

\* the lines check_token prints when verbose
VerboseLines(exp_timestamp, exp_time_in_sec) ==
    << [text |-> "Token is valid until", n |-> exp_timestamp],
       IF exp_time_in_sec < 24 * 3600
       THEN [text |-> "Token expires in seconds", n |-> exp_time_in_sec]
       ELSE [text |-> "Token expires in days", n |-> exp_time_in_sec \div (24 * 3600)] >>

check_token(oidc_token, verbose, now2) ==
    LET d == decode_token(oidc_token) IN
    IF d.val.none THEN Return(PyNone, <<>>, d.err, <<>>)
    ELSE IF "exp" \notin DOMAIN d.val.s THEN Raise("KeyError", <<>>, <<>>, <<>>)
    ELSE
      LET exp_timestamp == PyInt(d.val.s.exp)
          current_timestamp == PyInt(now2)
          exp_time_in_sec == exp_timestamp - current_timestamp
      IN  IF IsExpired(exp_time_in_sec)
          THEN Return(PyNone, <<>>, print_error("Error: Expired access token.", TRUE), <<>>)
          ELSE Return(oidc_token, <<>>, <<>>,
                      IF verbose THEN VerboseLines(exp_timestamp, exp_time_in_sec) ELSE <<>>)

get_checkin_id(oidc_token) ==
    LET d == decode_token(oidc_token) IN
    IF d.val.none THEN Return(PyNone, <<>>, d.err, <<>>)
    ELSE IF "sub" \notin DOMAIN d.val.s THEN Raise("KeyError", <<>>, <<>>, <<>>)
    ELSE Return(Py(d.val.s.sub), <<>>, <<>>, <<>>)

-----------------------------------------------------------------------------
(* HTTP transport (requests) *)

Statuses == {200, 302, 404, 500}

\* a response that arrived: status and body.  isjson: the body parses as a
\* JSON object; has/val: the one field the caller reads, and its value
HttpResp(status, isjson, has, val) ==
    [transport |-> "ok", status |-> status, isjson |-> isjson, has |-> has, val |-> val]

\* no response: the connection failed
ConnectionError == [transport |-> "ConnectionError", status |-> 0, isjson |-> FALSE, has |-> FALSE, val |-> PyNone]

\* the service was not called
Unused == [transport |-> "unused", status |-> 0, isjson |-> FALSE, has |-> FALSE, val |-> PyNone]

\* the bodies every endpoint can answer with, given the values of its field
Responses(vals) ==
    {ConnectionError}
    \cup {HttpResp(st, FALSE, FALSE, PyNone) : st \in Statuses}
    \cup {HttpResp(st, TRUE, FALSE, PyNone) : st \in Statuses}
    \cup {HttpResp(st, TRUE, TRUE, v) : st \in Statuses, v \in vals}

\* the answers to draw for service ep once the function, run without them,
\* stands at its call to ep
Answers(p, ep, responses) ==
    IF p.kind = "pending" /\ p.exc = ep THEN responses ELSE {Unused}

\* variant: the status is never looked at
raise_for_status_never(status) == FALSE

\* Response.raise_for_status(): HTTPError for 4xx and 5xx
raise_for_status(status) == 400 <= status /\ status < 600

\* one entry of the call log
Call(ep, req, resp) == [ep |-> ep, req |-> req, resp |-> resp]

-----------------------------------------------------------------------------
(* Token source adapters *)

\* answers of liboidcagent.get_access_token: a token, or OidcAgentError
AgentResponses ==
    {[transport |-> "ok", status |-> 0, isjson |-> FALSE, has |-> TRUE, val |-> Py(t)] : t \in TokenStrings}
    \cup {[transport |-> "OidcAgentError", status |-> 0, isjson |-> FALSE, has |-> FALSE, val |-> PyNone]}

get_token_from_oidc_agent(oidc_agent_account, a) ==
    IF Truthy(oidc_agent_account)
    THEN LET call == Call("agent",
                          [account |-> oidc_agent_account,
                           min_valid_period |-> MIN_ACCESS_TOKEN_TIME,
                           application_hint |-> "fedcloudclient"], a)
         IN  IF a = Unused THEN Pending("agent")
             ELSE IF a.transport = "ok"
             THEN Return(a.val, <<call>>, <<>>, <<>>)
             ELSE Return(PyNone, <<call>>,
                         print_error("Error during getting access token from oidc-agent", FALSE),
                         <<>>)
    ELSE Return(PyNone, <<>>, <<>>, <<>>)

\* access_token values the mytoken server can answer with (null included)
ExchangeResponses == Responses({PyNone} \cup {Py(t) : t \in TokenStrings})

get_token_from_mytoken_server(mytoken, mytoken_server, x) ==
    IF mytoken_server.none
    THEN Raise("TypeError", <<>>, <<>>, <<>>)           \* None + str
    ELSE IF mytoken_server.s = <<>>
    THEN Raise("MissingSchema", <<>>, <<>>, <<>>)       \* no URL to post to
    ELSE LET call == Call("exchange",
                          [url |-> mytoken_server.s \o <<"/api/v0/token/access">>,
                           json |-> [grant_type |-> "mytoken", mytoken |-> mytoken]], x)
         IN  IF x = Unused THEN Pending("exchange")
             ELSE IF x.transport # "ok" THEN Raise("ConnectionError", <<call>>, <<>>, <<>>)
             ELSE IF raise_for_status(x.status) THEN Raise("HTTPError", <<call>>, <<>>, <<>>)
             ELSE IF ~x.isjson THEN Raise("JSONDecodeError", <<call>>, <<>>, <<>>)
             ELSE Return(IF x.has THEN x.val ELSE PyNone, <<call>>, <<>>, <<>>)

-----------------------------------------------------------------------------
(* Resolution policy *)

\* the SystemExit message, cut at the option names it mentions
NoTokenMessage ==
    << "Error: An access token is needed for the operation. You can specify access token directly via ",
       "--oidc-access-token", " option or use oidc-agent via ", "--oidc-agent-account",
       " or mytoken via ", "--mytoken" >>

\* variant: the oidc-agent account takes precedence over the explicit token
get_access_token_agent_first(oidc_access_token, oidc_agent_account, mytoken, mytoken_server, now2, x, a) ==
    IF Truthy(oidc_agent_account) THEN get_token_from_oidc_agent(oidc_agent_account, a)
    ELSE IF Truthy(oidc_access_token) THEN check_token(oidc_access_token, FALSE, now2)
    ELSE IF Truthy(mytoken) THEN get_token_from_mytoken_server(mytoken, mytoken_server, x)
    ELSE Exit(NoTokenMessage, <<>>, <<>>, <<>>)

\* variant: an explicit token that is not usable falls through to the next source
get_access_token_fallback(oidc_access_token, oidc_agent_account, mytoken, mytoken_server, now2, x, a) ==
    LET c == check_token(oidc_access_token, FALSE, now2) IN
    IF Truthy(oidc_access_token) /\ ~(c.kind = "return" /\ c.val.none) THEN c
    ELSE IF Truthy(mytoken) THEN get_token_from_mytoken_server(mytoken, mytoken_server, x)
    ELSE IF Truthy(oidc_agent_account) THEN get_token_from_oidc_agent(oidc_agent_account, a)
    ELSE Exit(NoTokenMessage, <<>>, <<>>, <<>>)

\* variant: the last branch asks the agent instead of exiting
get_access_token_no_exit(oidc_access_token, oidc_agent_account, mytoken, mytoken_server, now2, x, a) ==
    IF Truthy(oidc_access_token) THEN check_token(oidc_access_token, FALSE, now2)
    ELSE IF Truthy(mytoken) THEN get_token_from_mytoken_server(mytoken, mytoken_server, x)
    ELSE get_token_from_oidc_agent(oidc_agent_account, a)

\* variant: the exchanged token goes through check_token
get_access_token_validating(oidc_access_token, oidc_agent_account, mytoken, mytoken_server, now2, x, a) ==
    IF Truthy(oidc_access_token) THEN check_token(oidc_access_token, FALSE, now2)
    ELSE IF Truthy(mytoken)
    THEN LET r == get_token_from_mytoken_server(mytoken, mytoken_server, x) IN
         IF r.kind = "return"
         THEN [check_token(r.val, FALSE, now2) EXCEPT !.calls = r.calls]
         ELSE r
    ELSE IF Truthy(oidc_agent_account) THEN get_token_from_oidc_agent(oidc_agent_account, a)
    ELSE Exit(NoTokenMessage, <<>>, <<>>, <<>>)

get_access_token(oidc_access_token, oidc_agent_account, mytoken, mytoken_server, now2, x, a) ==
    \* access token via parameter has the highest priority
    IF Truthy(oidc_access_token) THEN check_token(oidc_access_token, FALSE, now2)
    \* then try to get access token from mytoken server
    ELSE IF Truthy(mytoken) THEN get_token_from_mytoken_server(mytoken, mytoken_server, x)
    \* then, try to get access token from oidc-agent
    ELSE IF Truthy(oidc_agent_account) THEN get_token_from_oidc_agent(oidc_agent_account, a)
    \* nothing available
    ELSE Exit(NoTokenMessage, <<>>, <<>>, <<>>)

-----------------------------------------------------------------------------
(* Entitlement strings and VO_PATTERN *)

(* A string is the sequence of its lexemes.  The lexemes are prefix free,    *)
(* only ":" holds a colon and only the one-character lexemes can be taken by *)
(* a "." of the pattern, so matching lexeme by lexeme is matching character  *)
(* by character, and comparing lexeme by lexeme is comparing the strings.    *)
Lexemes ==
    <<".", ":", "a", "b", "egi", "eu", "group", "mace",
      "role=manager#aai", "role=member#aai", "urn", "vo", "x">>

\* position of a lexeme in the ascending (code point) order of the lexemes
LexRank(a) == CHOOSE i \in DOMAIN Lexemes : Lexemes[i] = a

OneChar == {".", ":", "a", "b", "x"}

\* VO_PATTERN, piece by piece; "ANY" is the pattern's unescaped "."
\*   urn:mace:egi.eu:group:   (.+?)   :   (.+:)*   role=member#aai.egi.eu
PatternHead == <<"urn", ":", "mace", ":", "egi", "ANY", "eu", ":", "group", ":">>

PatternTail == <<"role=member#aai", "ANY", "egi", "ANY", "eu">>

\* the fixed piece pat matches s from position i on
MatchFixed(pat, s, i) ==
    /\ i + Len(pat) - 1 <= Len(s)
    /\ \A k \in 1..Len(pat) :
          IF pat[k] = "ANY" THEN s[i + k - 1] \in OneChar ELSE s[i + k - 1] = pat[k]

RECURSIVE MatchRoles(_, _)
\* (.+:)*role=member#aai.egi.eu matches s from position i on: the tail is
\* here, or a non-empty run up to some later ":" is one more repetition
MatchRoles(s, i) ==
    \/ MatchFixed(PatternTail, s, i)
    \/ \E j \in (i + 1)..Len(s) : s[j] = ":" /\ MatchRoles(s, j + 1)

RECURSIVE MatchGroupDown(_, _, _)
\* the longest group of at most n lexemes that lets the rest match
MatchGroupDown(s, i, n) ==
    IF n < 1 THEN 0
    ELSE IF i + n <= Len(s) /\ s[i + n] = ":" /\ MatchRoles(s, i + n + 1) THEN n
    ELSE MatchGroupDown(s, i, n - 1)

\* (.+) in place of (.+?): the longest group
MatchGroup_greedy(s, i, n) == MatchGroupDown(s, i, Len(s) - i)

RECURSIVE MatchGroup(_, _, _)
\* (.+?): try the group s[i .. i+n-1] for n = 1, 2, ... and keep the first
\* that lets the rest of the pattern match; 0 when none does
MatchGroup(s, i, n) ==
    IF i + n > Len(s) THEN 0
    ELSE IF s[i + n] = ":" /\ MatchRoles(s, i + n + 1) THEN n
    ELSE MatchGroup(s, i, n + 1)

\* pattern.match(claim): anchored at the start of the string, not at its end.
\* [matched, group1]
pattern_match(claim) ==
    LET i == Len(PatternHead) + 1
        n == IF MatchFixed(PatternHead, claim, 1) THEN MatchGroup(claim, i, 1) ELSE 0
    IN  IF n > 0 THEN [matched |-> TRUE, group1 |-> SubSeq(claim, i, i + n - 1)]
        ELSE [matched |-> FALSE, group1 |-> <<>>]

\* str.__lt__: the strings a and b compared lexeme by lexeme
RECURSIVE StrLess(_, _)
StrLess(a, b) ==
    IF b = <<>> THEN FALSE
    ELSE IF a = <<>> THEN TRUE
    ELSE IF Head(a) # Head(b) THEN LexRank(Head(a)) < LexRank(Head(b))
    ELSE StrLess(Tail(a), Tail(b))

RECURSIVE sorted(_)
\* sorted(vos) of a set of strings: the least first
sorted(vos) ==
    IF vos = {} THEN <<>>
    ELSE LET m == CHOOSE x \in vos : \A y \in vos \ {x} : StrLess(x, y)
         IN  <<m>> \o sorted(vos \ {m})

\* lines 213-219: the set of first groups of the matching claims, sorted
ExtractVos(entitlements) ==
    sorted({pattern_match(entitlements[k]).group1 :
              k \in {j \in DOMAIN entitlements : pattern_match(entitlements[j]).matched}})

-----------------------------------------------------------------------------
(* Entitlement claims the userinfo endpoint answers with *)

Head_ == <<"urn", ":", "mace", ":", "egi", ".", "eu", ":", "group", ":">>

Member == <<"role=member#aai", ".", "egi", ".", "eu">>

Manager == <<"role=manager#aai", ".", "egi", ".", "eu">>

VoA == <<"vo", ".", "a">>

VoB == <<"vo", ".", "b">>

Entitlements ==
    { Head_ \o VoA \o <<":">> \o Member,                          \* member of vo.a
      Head_ \o VoA \o <<":">> \o Manager,                         \* manager of vo.a
      Head_ \o VoB \o <<":">> \o Member,                          \* member of vo.b
      Head_ \o <<"b">> \o <<":">> \o Member,                      \* member of b
      Head_ \o VoA \o <<":", "x", ":">> \o Member,                \* member of vo.a:x
      Head_ \o VoB \o <<":">> \o Manager \o <<":">> \o Member,    \* manager and member
      Head_ \o <<"a", ":", ":">> \o Member,                       \* group "a:"
      Head_ \o <<":">> \o Member,                                 \* empty group
      <<"x">>,                                                    \* not-a-matching-string
      <<"x">> \o Head_ \o VoB \o <<":">> \o Member,               \* text before the URN
      Head_ \o <<"x">> \o <<":">> \o Member \o <<".", "x">>,      \* text after the URN
      <<"urn", ":", "mace", ":", "egi", "x", "eu", ":", "group", ":", "a", ":">> \o Member }
                                                                  \* egixeu for egi.eu

RECURSIVE SeqsUpTo(_, _)
\* the sequences over S of length at most n
SeqsUpTo(S, n) ==
    IF n = 0 THEN {<<>>}
    ELSE LET shorter == SeqsUpTo(S, n - 1)
         IN  shorter \cup {Append(q, x) : q \in shorter, x \in S}

EntitlementLists == SeqsUpTo(Entitlements, MaxList)

-----------------------------------------------------------------------------
(* oidc_discover, token_list_vos *)

UserinfoUrl == <<"https://aai.egi.eu", "/userinfo">>

DiscoveryResponses == Responses({Py(UserinfoUrl)})

\* a list of entitlements, or a JSON null
UserinfoResponses == Responses({PyNone} \cup {Py(l) : l \in EntitlementLists})

\* the value returned is the JSON document: the response
oidc_discover(oidc_url, x) ==
    LET call == Call("discovery", [url |-> <<oidc_url, "/.well-known/openid-configuration">>], x)
    IN  IF x = Unused THEN Pending("discovery")
        ELSE IF x.transport # "ok" THEN Raise("ConnectionError", <<call>>, <<>>, <<>>)
        ELSE IF raise_for_status(x.status) THEN Raise("HTTPError", <<call>>, <<>>, <<>>)
        ELSE IF ~x.isjson THEN Raise("JSONDecodeError", <<call>>, <<>>, <<>>)
        ELSE Return(Py(x), <<call>>, <<>>, <<>>)

\* lines 207-219, with the discovery document in hand
FetchUserinfo(oidc_access_token, oidc_ep, calls, x) ==
    IF ~oidc_ep.has THEN Raise("KeyError", calls, <<>>, <<>>)
    ELSE LET call == Call("userinfo",
                          [url |-> oidc_ep.val.s, Authorization |-> <<"Bearer", oidc_access_token>>], x)
             log == Append(calls, call)
         IN  IF x = Unused THEN Pending("userinfo")
             ELSE IF x.transport # "ok" THEN Raise("ConnectionError", log, <<>>, <<>>)
             ELSE IF raise_for_status(x.status) THEN Raise("HTTPError", log, <<>>, <<>>)
             ELSE IF ~x.isjson THEN Raise("JSONDecodeError", log, <<>>, <<>>)
             ELSE IF ~x.has THEN Return(Py(ExtractVos(<<>>)), log, <<>>, <<>>)
             ELSE IF x.val.none THEN Raise("TypeError", log, <<>>, <<>>)
             ELSE Return(Py(ExtractVos(x.val.s)), log, <<>>, <<>>)

token_list_vos(oidc_access_token, disc, ui) ==
    LET d == decode_token(oidc_access_token) IN
    IF d.val.none THEN Raise("TypeError", <<>>, d.err, <<>>)     \* None["iss"]
    ELSE IF "iss" \notin DOMAIN d.val.s THEN Raise("KeyError", <<>>, <<>>, <<>>)
    ELSE LET oidc_ep == oidc_discover(d.val.s.iss, disc) IN
         IF oidc_ep.kind = "return"
         THEN FetchUserinfo(oidc_access_token, oidc_ep.val.s, oidc_ep.calls, ui)
         ELSE oidc_ep

-----------------------------------------------------------------------------
(* The state machine: one process makes one call.  Nothing is kept from one *)
(* call to the next, so every call starts from the state Init describes.    *)

\* tokens given to the functions that do not look at exp
SomeTokenArgs ==
    {PyNone, Py(<<>>), Py(Jwt(Claims(400000))), Py(NoIssToken), Py(NoSubToken)}
    \cup {Py(t) : t \in MalformedTokens}

Init ==
    /\ clock2 = 0
    /\ op = "init"
    /\ args = [none |-> TRUE]
    /\ result = Return(PyNone, <<>>, <<>>, <<>>)

\* time passes before the call
Tick ==
    /\ op = "init"
    /\ clock2 < MaxClock2
    /\ clock2' = clock2 + 1
    /\ UNCHANGED <<op, args, result>>

DecodeToken ==
    /\ op = "init"
    /\ \E tok \in SomeTokenArgs :
           /\ op' = "decode_token"
           /\ args' = [oidc_access_token |-> tok]
           /\ result' = decode_token(tok)
           /\ UNCHANGED clock2

CheckToken ==
    /\ op = "init"
    /\ \E tok \in TokenArgs, verbose \in BOOLEAN :
           /\ op' = "check_token"
           /\ args' = [oidc_token |-> tok, verbose |-> verbose]
           /\ result' = check_token(tok, verbose, clock2)
           /\ UNCHANGED clock2

GetCheckinId ==
    /\ op = "init"
    /\ \E tok \in SomeTokenArgs :
           /\ op' = "get_checkin_id"
           /\ args' = [oidc_token |-> tok]
           /\ result' = get_checkin_id(tok)
           /\ UNCHANGED clock2

GetTokenFromOidcAgent ==
    /\ op = "init"
    /\ \E account \in StrArgs("egi") :
         \E a \in Answers(get_token_from_oidc_agent(account, Unused), "agent", AgentResponses) :
           /\ op' = "get_token_from_oidc_agent"
           /\ args' = [oidc_agent_account |-> account]
           /\ result' = get_token_from_oidc_agent(account, a)
           /\ UNCHANGED clock2

GetTokenFromMytokenServer ==
    /\ op = "init"
    /\ \E mytoken \in StrArgs("MT"), server \in StrArgs("https://mytoken.data.kit.edu") :
         \E x \in Answers(get_token_from_mytoken_server(mytoken, server, Unused), "exchange", ExchangeResponses) :
           /\ op' = "get_token_from_mytoken_server"
           /\ args' = [mytoken |-> mytoken, mytoken_server |-> server]
           /\ result' = get_token_from_mytoken_server(mytoken, server, x)
           /\ UNCHANGED clock2

GetAccessToken ==
    /\ op = "init"
    /\ \E tok \in TokenArgs, account \in StrArgs("egi"), mytoken \in StrArgs("MT"),
          server \in StrArgs("https://mytoken.data.kit.edu") :
         LET p == get_access_token(tok, account, mytoken, server, clock2, Unused, Unused) IN
         \E x \in Answers(p, "exchange", ExchangeResponses), a \in Answers(p, "agent", AgentResponses) :
           /\ op' = "get_access_token"
           /\ args' = [oidc_access_token |-> tok, oidc_agent_account |-> account,
                       mytoken |-> mytoken, mytoken_server |-> server]
           /\ result' = get_access_token(tok, account, mytoken, server, clock2, x, a)
           /\ UNCHANGED clock2

OidcDiscover ==
    /\ op = "init"
    /\ \E x \in DiscoveryResponses :
           /\ op' = "oidc_discover"
           /\ args' = [oidc_url |-> "https://aai.egi.eu"]
           /\ result' = oidc_discover("https://aai.egi.eu", x)
           /\ UNCHANGED clock2

TokenListVos ==
    /\ op = "init"
    /\ \E tok \in SomeTokenArgs :
         \E disc \in Answers(token_list_vos(tok, Unused, Unused), "discovery", DiscoveryResponses) :
           \E ui \in Answers(token_list_vos(tok, disc, Unused), "userinfo", UserinfoResponses) :
             /\ op' = "token_list_vos"
             /\ args' = [oidc_access_token |-> tok]
             /\ result' = token_list_vos(tok, disc, ui)
             /\ UNCHANGED clock2

Next ==
    \/ Tick
    \/ DecodeToken
    \/ CheckToken
    \/ GetCheckinId
    \/ GetTokenFromOidcAgent
    \/ GetTokenFromMytokenServer
    \/ GetAccessToken
    \/ OidcDiscover
    \/ TokenListVos

Spec == Init /\ [][Next]_vars

-----------------------------------------------------------------------------
(* Vocabulary of the properties *)

\* the current time in whole seconds
Now == clock2 \div 2

\* tok is a non-empty string that decodes and carries exp
HasExp(tok) == Truthy(tok) /\ tok.s \in WellFormedTokens /\ tok.s # NoExpToken

\* exp - now, in half seconds
Remaining2(tok) == tok.s[2].claims.exp - 2 * Now

Fresh(tok) == HasExp(tok) /\ Remaining2(tok) >= 2 * MIN_ACCESS_TOKEN_TIME

Stale(tok) == HasExp(tok) /\ Remaining2(tok) < 2 * MIN_ACCESS_TOKEN_TIME

\* the calls the last function made to endpoint ep
CallsTo(ep) == {i \in DOMAIN result.calls : result.calls[i].ep = ep}

ReturnedNone == result.kind = "return" /\ result.val.none

\* the call failed: no answer (connection or agent error) or an error status
Failed(call) ==
    \/ call.resp.transport # "ok"
    \/ call.resp.status >= 400

-----------------------------------------------------------------------------
(* Resolution priority *)

\* C1: get_access_token given a non-empty explicit token that decodes and has
\* exp - now >= 30 returns that token verbatim and calls neither the mytoken
\* server nor the oidc-agent, whatever mytoken, mytoken_server and the agent
\* account are.
C1_ValidExplicitTokenWins ==
    (op = "get_access_token" /\ Fresh(args.oidc_access_token))
        => /\ result.kind = "return"
           /\ result.val = args.oidc_access_token
           /\ result.calls = <<>>

C1_Witness ==
    /\ op = "get_access_token"
    /\ Fresh(args.oidc_access_token)
    /\ Truthy(args.mytoken) /\ Truthy(args.mytoken_server) /\ Truthy(args.oidc_agent_account)
    /\ result.val = args.oidc_access_token

\* C2: get_access_token given a non-empty explicit token with exp - now < 30
\* does not fall through: it calls neither the mytoken server nor the
\* oidc-agent and its result is no token, even when a mytoken or an agent
\* account is supplied as well.
C2_ExpiredExplicitTokenNoFallback ==
    (op = "get_access_token" /\ Stale(args.oidc_access_token))
        => /\ result.calls = <<>>
           /\ ReturnedNone

C2_Witness ==
    /\ op = "get_access_token"
    /\ Stale(args.oidc_access_token)
    /\ Truthy(args.mytoken) /\ Truthy(args.mytoken_server) /\ Truthy(args.oidc_agent_account)
    /\ result.calls = <<>>
    /\ ReturnedNone

-----------------------------------------------------------------------------
(* Expiry threshold *)

\* C3: check_token given a token that decodes and carries exp returns the
\* token if and only if exp - now >= 30 (now in whole seconds), and returns
\* no token otherwise: accepted at exp - now = 30, rejected at 29 and below.
C3_ThirtySecondThreshold ==
    (op = "check_token" /\ HasExp(args.oidc_token))
        => /\ result.kind = "return"
           /\ (result.val = args.oidc_token) <=> Fresh(args.oidc_token)
           /\ result.val.none <=> Stale(args.oidc_token)

C3_Witness ==
    /\ op = "check_token"
    /\ HasExp(args.oidc_token)
    /\ Now > 0
    /\ Remaining2(args.oidc_token) = 2 * MIN_ACCESS_TOKEN_TIME
    /\ result.val = args.oidc_token

-----------------------------------------------------------------------------
(* No source configured *)

\* C4: get_access_token with no explicit token, no mytoken and no agent
\* account (each None or empty, whatever mytoken_server is) returns nothing:
\* it exits with a non-zero status and a message naming the three options,
\* and makes no external call.
C4_NoSourceIsFatal ==
    (/\ op = "get_access_token"
     /\ ~Truthy(args.oidc_access_token)
     /\ ~Truthy(args.mytoken)
     /\ ~Truthy(args.oidc_agent_account))
        => /\ result.kind = "exit"
           /\ ExitStatus(result) # 0
           /\ {"--oidc-access-token", "--oidc-agent-account", "--mytoken"} \subseteq Range(result.msg)
           /\ result.calls = <<>>

C4_Witness ==
    /\ op = "get_access_token"
    /\ args.oidc_access_token = Py(<<>>)
    /\ args.mytoken = PyNone
    /\ args.oidc_agent_account = Py(<<>>)
    /\ Truthy(args.mytoken_server)
    /\ result.kind = "exit"

-----------------------------------------------------------------------------
(* Mytoken exchange *)

\* the exchange answered with a 2xx status and a JSON object holding
\* access_token
ExchangeSucceeded(call) ==
    /\ call.ep = "exchange"
    /\ call.resp.transport = "ok"
    /\ call.resp.status \in 200..299
    /\ call.resp.isjson /\ call.resp.has

C6_ExchangeFailedIsAnError ==
    (op \in {"get_token_from_mytoken_server", "get_access_token"})
        => \A i \in CallsTo("exchange") :
              LET resp == result.calls[i].resp IN
              (/\ resp.transport = "ok"
               /\ \/ resp.status \in 400..599
                  \/ resp.isjson /\ ~resp.has)
                 => result.kind = "raise"

-----------------------------------------------------------------------------
(* Outcomes of the resolution *)

\* C7: get_access_token either returns a token or ends in a fatal error; it
\* never returns normally with no token.
C7_NeverReturnsNoToken ==
    op = "get_access_token" => ~ReturnedNone

-----------------------------------------------------------------------------
(* VO extraction *)

\* the fixed text pat of the grammar stands in s at position i ("ANY": any
\* one character)
GrammarFixed(pat, s, i) ==
    /\ Len(s) >= i + Len(pat) - 1
    /\ \A k \in DOMAIN pat : pat[k] = "ANY" => s[i + k - 1] \in OneChar
    /\ \A k \in DOMAIN pat : pat[k] # "ANY" => s[i + k - 1] = pat[k]

\* the lengths n of a GROUP with which s reads
\*   urn:mace:egi.eu:group: GROUP : ROLE-SEGMENTS role=member#aai.egi.eu ...
\* where ROLE-SEGMENTS (m lexemes) is empty or ends with ":" after at least
\* one other character
GroupLengths(s) ==
    LET h == Len(PatternHead) IN
    { n \in 1..Len(s) :
        /\ GrammarFixed(PatternHead, s, 1)
        /\ h + n + 1 <= Len(s)
        /\ s[h + n + 1] = ":"
        /\ \E m \in 0..Len(s) :
              /\ m # 1
              /\ m >= 2 => (h + n + 1 + m <= Len(s) /\ s[h + n + 1 + m] = ":")
              /\ GrammarFixed(PatternTail, s, h + n + 2 + m) }

\* the GROUP of a matching string: the shortest one
GroupOf(s) ==
    LET n == CHOOSE k \in GroupLengths(s) : \A j \in GroupLengths(s) : k <= j
    IN  SubSeq(s, Len(PatternHead) + 1, Len(PatternHead) + n)

\* a comes before b in lexicographic order
LexBefore(a, b) ==
    \E k \in 1..Len(b) :
        /\ k <= Len(a) + 1
        /\ \A j \in 1..(k - 1) : a[j] = b[j]
        /\ k <= Len(a) => LexRank(a[k]) < LexRank(b[k])

\* the userinfo endpoint answered with a 2xx status and a JSON object whose
\* eduperson_entitlement is absent or a list
UserinfoSucceeded(call) ==
    /\ call.ep = "userinfo"
    /\ call.resp.transport = "ok"
    /\ call.resp.status \in 200..299
    /\ call.resp.isjson
    /\ call.resp.has => ~call.resp.val.none

EntitlementsOf(call) == IF call.resp.has THEN call.resp.val.s ELSE <<>>

-----------------------------------------------------------------------------
(* No retry *)

\* C9: get_access_token and token_list_vos make each external call at most
\* once; get_access_token calls at most one source; no call follows a failed
\* call, and the userinfo endpoint is called only after a discovery that
\* succeeded.
C9_NoRetry ==
    op \in {"get_access_token", "token_list_vos"}
        => /\ \A ep \in {"exchange", "agent", "discovery", "userinfo"} : Cardinality(CallsTo(ep)) <= 1
           /\ op = "get_access_token" => Len(result.calls) <= 1
           /\ \A i \in 1..(Len(result.calls) - 1) : ~Failed(result.calls[i])
           /\ \A i \in CallsTo("userinfo") :
                 i > 1 /\ result.calls[i - 1].ep = "discovery"

C9_Witness ==
    /\ op = "token_list_vos"
    /\ Len(result.calls) = 1
    /\ result.calls[1].ep = "discovery"
    /\ result.calls[1].resp.status = 500
    /\ result.calls[1].resp.isjson /\ result.calls[1].resp.has
    /\ result.kind = "raise"

-----------------------------------------------------------------------------
(* Malformed tokens *)

\* C10: given a string that does not decode, decode_token, check_token,
\* get_checkin_id and token_list_vos all end without an exception, return
\* nothing and make no network request.
C10_MalformedTokenIsAbsent ==
    (/\ op \in {"decode_token", "check_token", "get_checkin_id", "token_list_vos"}
     /\ \E t \in MalformedTokens :
           Py(t) = (IF op \in {"check_token", "get_checkin_id"}
                    THEN args.oidc_token ELSE args.oidc_access_token))
        => /\ ReturnedNone
           /\ result.calls = <<>>

====
